---- MODULE Spec2Model ----
(***************************************************************************)
(* Model of analyze_stocks.py: the __main__ loop over the data files, the  *)
(* readers (is_stock_list, read_stock_list, read_tdx_export) and the two   *)
(* analyses (analyze_stock_list, analyze_kline).                           *)
(*                                                                         *)
(* Strings are sequences of one-character strings, so that str.strip,      *)
(* str.startswith, `in` and str.isdigit are computed as Python computes    *)
(* them.  A DataFrame is a sequence of rows; a row of a derived frame is   *)
(* the position of the row in the input frame (its pandas index label).    *)
(***************************************************************************)
EXTENDS Integers, Sequences, FiniteSets, TLC

VARIABLES
    pc,             \* position of the program
    remaining,      \* number of entries of data_files not yet taken by the for loop
    doc,            \* the file the loop is at: extension, encodings that decode it, shape
    encoding,       \* the encoding the successful read used, "none" otherwise
    exc,            \* the exception that left the program, "none" otherwise
    df,             \* the frame handed to the analysis
    idx,            \* analyze_stock_list: position of the grouping loop
    current_group,  \* analyze_stock_list: current_group
    groups,         \* analyze_stock_list: groups, in insertion order
    all_stocks,     \* analyze_stock_list: all_stocks
    index_df,       \* analyze_stock_list: index_df
    duplicates,     \* analyze_stock_list: duplicates, in insertion order
    stock_df,       \* analyze_stock_list: stock_df
    out_index,      \* printed index listing
    out_groups,     \* printed per-group listings
    out_stats,      \* printed statistics
    out_top,        \* printed top listing
    out_bottom,     \* printed bottom listing
    kdf,            \* analyze_kline: the frame after dropna
    out_kline       \* analyze_kline: printed price statistics

vars == <<pc, remaining, doc, encoding, exc, df, idx, current_group, groups,
          all_stocks, index_df, duplicates, stock_df, out_index, out_groups,
          out_stats, out_top, out_bottom, kdf, out_kline>>

listVars == <<idx, current_group, groups, all_stocks, index_df, duplicates,
              stock_df, out_index, out_groups, out_stats, out_top, out_bottom>>

klineVars == <<kdf, out_kline>>

runVars == <<remaining, doc, encoding>>

(***************************************************************************)
(* Bounds                                                                  *)
(***************************************************************************)
MaxRows == 3        \* rows of a watchlist frame given to analyze_stock_list alone
MaxRunRows == 2     \* rows of a watchlist file met by the __main__ loop
MaxKRows == 2       \* rows of a price-series file
MaxFiles == 2       \* entries of data_files

(***************************************************************************)
(* Program constants                                                       *)
(***************************************************************************)
TopN == 5

Digits == {"0", "1", "2", "3", "4", "5", "6", "7", "8", "9"}

\* Characters outside ASCII are written by their pinyin: one token is one character.
Unclassified == <<"wei", "fen", "lei">>         \* the label "wei fen lei" (unclassified)

NoiseDuplicate == <<"chong", "fu">>              \* "chong fu" (duplicate)

NoiseSource == <<"shu", "ju", "lai", "yuan">>    \* "shu ju lai yuan" (data source)

IndexPrefix == <<"9", "9">>

Encodings == <<"gbk", "utf-8", "gb2312">>

(***************************************************************************)
(* Numeric cells.  A cell of the change-percent / close column is a number, *)
(* NaN (missing) or a text that is not a number.                           *)
(***************************************************************************)
Num(n) == [k |-> "num", v |-> n]

NaN == [k |-> "nan", v |-> 0]

Text == [k |-> "str", v |-> 0]

Omitted == [k |-> "omitted", v |-> 0]

PosInf == [k |-> "inf", v |-> 1]

NegInf == [k |-> "inf", v |-> -1]

(***************************************************************************)
(* String helpers                                                          *)
(***************************************************************************)
RECURSIVE LStrip(_)
LStrip(s) == IF s # <<>> /\ Head(s) = " " THEN LStrip(Tail(s)) ELSE s

RECURSIVE RStrip(_)
RStrip(s) == IF s # <<>> /\ s[Len(s)] = " " THEN RStrip(SubSeq(s, 1, Len(s) - 1)) ELSE s

Strip(s) == RStrip(LStrip(s))

StartsWith(s, p) == Len(s) >= Len(p) /\ SubSeq(s, 1, Len(p)) = p

Contains(s, sub) == \E i \in 1..(Len(s) - Len(sub) + 1) : SubSeq(s, i, i + Len(sub) - 1) = sub

IsDigit(c) == c \in Digits

RECURSIVE Concat(_)
Concat(ss) == IF ss = <<>> THEN <<>> ELSE Head(ss) \o Concat(Tail(ss))

Take(s, n) == SubSeq(s, 1, IF Len(s) < n THEN Len(s) ELSE n)

Reverse(s) == [i \in 1..Len(s) |-> s[Len(s) + 1 - i]]

Range(s) == {s[i] : i \in 1..Len(s)}

(***************************************************************************)
(* Watchlist frames.  A row has the columns code, name and change percent. *)
(***************************************************************************)
Row(code, name, chg) == [code |-> code, name |-> name, chg |-> chg]

RowSet ==
    { Row(<<"A">>, <<>>, NaN),                              \* marker, label in the code column
      Row(<<" ">>, <<"B">>, NaN),                           \* marker, blank code, label in the name column
      Row(<<"A", "chong", "fu">>, <<>>, NaN),               \* footer annotation "...chong fu"
      Row(<<>>, <<"shu", "ju", "lai", "yuan">>, NaN),       \* footer annotation "shu ju lai yuan"
      Row(<<>>, <<>>, NaN),                                 \* no code and no name
      Row(<<"0", "1">>, <<"a">>, Num(2)),
      Row(<<"0", "1">>, <<"b">>, Num(-1)),                  \* same code, other name and rate
      Row(<<"0", "2">>, <<"c">>, Num(0)),
      Row(<<"0", "2">>, <<"c">>, Text),                     \* rate is not a number
      Row(<<"9", "0">>, <<"d">>, NaN),                      \* rate missing
      Row(<<"9", "9", "1">>, <<"i">>, Num(2)) }             \* market index

Frames(n) == UNION {[1..m -> RowSet] : m \in 0..n}

NoFrame == <<>>

(***************************************************************************)
(* analyze_stock_list: helpers                                             *)
(***************************************************************************)
\* a row is taken for a marker only when its code is empty
IsMarkerRowEmptyOnly(code) == code = <<>>

\* line 241: not code or not code[0].isdigit()
IsMarkerRow(code) == IF code = <<>> THEN TRUE ELSE ~IsDigit(code[1])

\* line 243: code if code else name
GroupName(code, name) == IF code # <<>> THEN code ELSE name

\* only the "chong fu" annotation is rejected
AcceptLabelDuplicateOnly(g) == g # <<>> /\ ~Contains(g, NoiseDuplicate)

\* line 244: the label is kept unless empty or a footer annotation
AcceptLabel(g) == g # <<>> /\ ~Contains(g, NoiseDuplicate) /\ ~Contains(g, NoiseSource)

HasGroup(gs, g) == \E j \in 1..Len(gs) : gs[j].label = g

\* lines 246-247 and 250-251: groups[g] = [] unless present
EnsureGroup(gs, g) == IF HasGroup(gs, g) THEN gs ELSE Append(gs, [label |-> g, rows |-> <<>>])

\* line 252: groups[g].append(row)
AppendRow(gs, g, i) ==
    [j \in 1..Len(gs) |-> IF gs[j].label = g THEN [gs[j] EXCEPT !.rows = Append(@, i)] ELSE gs[j]]

\* str.startswith('99') on the code column
IsIndexCode(code) == StartsWith(code, IndexPrefix)

\* the filter on the code prefix is left out
NonIndexRowsKeepAll(d, rows) == rows

\* frame[~frame.code.str.startswith('99')]
NonIndexRows(d, rows) == SelectSeq(rows, LAMBDA i : ~IsIndexCode(d[i].code))

\* frame[frame.code.str.startswith('99')]
IndexRows(d, rows) == SelectSeq(rows, LAMBDA i : IsIndexCode(d[i].code))

\* lines 255-258: the groups that have rows, in insertion order
GroupDfs(gs) == SelectSeq(gs, LAMBDA g : g.rows # <<>>)

\* line 261: pd.concat(group_dfs.values()) if group_dfs else df
AllStocks(d, gs) ==
    IF GroupDfs(gs) # <<>>
    THEN Concat([j \in 1..Len(GroupDfs(gs)) |-> GroupDfs(gs)[j].rows])
    ELSE [i \in 1..Len(d) |-> i]

\* lines 265-268: (code, group) pairs of the non-index rows, group by group
AllCodes(d, gs) ==
    Concat([j \in 1..Len(GroupDfs(gs)) |->
              [m \in 1..Len(NonIndexRows(d, GroupDfs(gs)[j].rows)) |->
                  [code |-> d[NonIndexRows(d, GroupDfs(gs)[j].rows)[m]].code,
                   group |-> GroupDfs(gs)[j].label]]])

\* Counter(...)[c]
CodeCount(pairs, c) == Cardinality({m \in 1..Len(pairs) : pairs[m].code = c})

\* the keys of a dict built from a sequence: first occurrences, in order
RECURSIVE FirstKeys(_, _)
FirstKeys(pairs, seen) ==
    IF pairs = <<>> THEN <<>>
    ELSE IF Head(pairs).code \in seen THEN FirstKeys(Tail(pairs), seen)
    ELSE <<Head(pairs).code>> \o FirstKeys(Tail(pairs), seen \cup {Head(pairs).code})

GroupsOfCode(pairs, c) ==
    LET hits == SelectSeq(pairs, LAMBDA p : p.code = c)
    IN  [m \in 1..Len(hits) |-> hits[m].group]

\* lines 270-275
Duplicates(d, gs) ==
    LET pairs == AllCodes(d, gs)
        keys  == SelectSeq(FirstKeys(pairs, {}), LAMBDA c : CodeCount(pairs, c) > 1)
    IN  [m \in 1..Len(keys) |-> [code |-> keys[m], groups |-> GroupsOfCode(pairs, keys[m])]]

\* line 279: drop_duplicates(subset=[code]) keeps the first row of each code
RECURSIVE DropDuplicates(_, _, _)
DropDuplicates(d, rows, seen) ==
    IF rows = <<>> THEN <<>>
    ELSE IF d[Head(rows)].code \in seen THEN DropDuplicates(d, Tail(rows), seen)
    ELSE <<Head(rows)>> \o DropDuplicates(d, Tail(rows), seen \cup {d[Head(rows)].code})

\* lines 278-279
StockDf(d, all) == DropDuplicates(d, NonIndexRows(d, all), {})

\* pd.to_numeric(..., errors='coerce')
ToNumeric(c) == IF c.k = "num" THEN c ELSE NaN

\* try: float(change) formatted; except: the rate is left out
FloatOrOmit(c) == IF c.k = "str" THEN Omitted ELSE c

\* format(value, '+.2f') raises ValueError on a str
FormatRaises(c) == c.k = "str"

Entry(i, rate) == [row |-> i, rate |-> rate]

\* sort_values(ascending=False): numbers descending, NaN last
RECURSIVE InsertDesc(_, _, _)
InsertDesc(d, i, sorted) ==
    IF sorted = <<>> THEN <<i>>
    ELSE IF ToNumeric(d[Head(sorted)].chg).k = "num"
            /\ (ToNumeric(d[i].chg).k = "nan" \/ ToNumeric(d[Head(sorted)].chg).v >= ToNumeric(d[i].chg).v)
         THEN <<Head(sorted)>> \o InsertDesc(d, i, Tail(sorted))
         ELSE IF ToNumeric(d[Head(sorted)].chg).k = "nan" /\ ToNumeric(d[i].chg).k = "nan"
              THEN <<Head(sorted)>> \o InsertDesc(d, i, Tail(sorted))
              ELSE <<i>> \o sorted

RECURSIVE SortDesc(_, _)
SortDesc(d, rows) ==
    IF rows = <<>> THEN <<>>
    ELSE InsertDesc(d, rows[Len(rows)], SortDesc(d, SubSeq(rows, 1, Len(rows) - 1)))

RECURSIVE SumOf(_, _)
SumOf(d, rows) == IF rows = <<>> THEN 0 ELSE d[Head(rows)].chg.v + SumOf(d, Tail(rows))

NumericRows(d, rows) == SelectSeq(rows, LAMBDA i : ToNumeric(d[i].chg).k = "num")

\* lines 351-357: comparisons with NaN are false; max, min and mean skip NaN
Stats(d, rows) ==
    LET nums == NumericRows(d, rows)
        vals == {d[nums[m]].chg.v : m \in 1..Len(nums)}
    IN  [up    |-> Cardinality({m \in 1..Len(nums) : d[nums[m]].chg.v > 0}),
         down  |-> Cardinality({m \in 1..Len(nums) : d[nums[m]].chg.v < 0}),
         flat  |-> Cardinality({m \in 1..Len(nums) : d[nums[m]].chg.v = 0}),
         max   |-> IF nums = <<>> THEN NaN ELSE Num(CHOOSE x \in vals : \A y \in vals : y <= x),
         min   |-> IF nums = <<>> THEN NaN ELSE Num(CHOOSE x \in vals : \A y \in vals : y >= x),
         sum   |-> SumOf(d, nums),
         count |-> Len(nums)]

NoStats == [up |-> 0, down |-> 0, flat |-> 0, max |-> NaN, min |-> NaN, sum |-> 0, count |-> 0]

\* the rows a loop of format(row.chg, '+.2f') prints before it ends or raises
RECURSIVE Printed(_, _)
Printed(d, rows) ==
    IF rows = <<>> \/ FormatRaises(d[Head(rows)].chg) THEN <<>>
    ELSE <<Entry(Head(rows), d[Head(rows)].chg)>> \o Printed(d, Tail(rows))

AnyRaises(d, rows) == \E m \in 1..Len(rows) : FormatRaises(d[rows[m]].chg)

\* stock_df.head(5)
HeadRows(rows) == Take(rows, TopN)

\* stock_df.tail(5).iloc[::-1]
TailRowsReversed(rows) ==
    Reverse(SubSeq(rows, (IF Len(rows) > TopN THEN Len(rows) - TopN ELSE 0) + 1, Len(rows)))

\* lines 316-338: one listing per group that has non-index rows
GroupListings(d, gs) ==
    LET shown == SelectSeq(GroupDfs(gs), LAMBDA g : NonIndexRows(d, g.rows) # <<>>)
    IN  [j \in 1..Len(shown) |->
            [label   |-> shown[j].label,
             entries |-> [m \in 1..Len(NonIndexRows(d, shown[j].rows)) |->
                            Entry(SortDesc(d, NonIndexRows(d, shown[j].rows))[m],
                                  FloatOrOmit(ToNumeric(d[SortDesc(d, NonIndexRows(d, shown[j].rows))[m]].chg)))]]]

(***************************************************************************)
(* analyze_stock_list                                                      *)
(***************************************************************************)
ListLocalsInit ==
    /\ idx = 0
    /\ current_group = Unclassified
    /\ groups = <<>>
    /\ all_stocks = <<>>
    /\ index_df = <<>>
    /\ duplicates = <<>>
    /\ stock_df = <<>>
    /\ out_index = <<>>
    /\ out_groups = <<>>
    /\ out_stats = NoStats
    /\ out_top = <<>>
    /\ out_bottom = <<>>

ListLocalsReset ==
    /\ idx' = 0
    /\ current_group' = Unclassified
    /\ groups' = <<>>
    /\ all_stocks' = <<>>
    /\ index_df' = <<>>
    /\ duplicates' = <<>>
    /\ stock_df' = <<>>
    /\ out_index' = <<>>
    /\ out_groups' = <<>>
    /\ out_stats' = NoStats
    /\ out_top' = <<>>
    /\ out_bottom' = <<>>

\* lines 228-230: nothing to analyse
ListEmpty ==
    /\ pc = "list"
    /\ df = <<>>
    /\ pc' = "main"
    /\ df' = NoFrame
    /\ UNCHANGED <<runVars, exc, listVars, klineVars>>

\* lines 233-236: the locals of the grouping loop
ListBegin ==
    /\ pc = "list"
    /\ df # <<>>
    /\ pc' = "loop"
    /\ idx' = 1
    /\ current_group' = Unclassified
    /\ groups' = <<>>
    /\ UNCHANGED <<runVars, exc, df, all_stocks, index_df, duplicates, stock_df,
                   out_index, out_groups, out_stats, out_top, out_bottom, klineVars>>

\* lines 241-247: a marker row whose label is kept
GroupMarker ==
    /\ pc = "loop"
    /\ idx <= Len(df)
    /\ IsMarkerRow(Strip(df[idx].code))
    /\ AcceptLabel(GroupName(Strip(df[idx].code), Strip(df[idx].name)))
    /\ current_group' = GroupName(Strip(df[idx].code), Strip(df[idx].name))
    /\ groups' = EnsureGroup(groups, current_group')
    /\ idx' = idx + 1
    /\ UNCHANGED <<pc, runVars, exc, df, all_stocks, index_df, duplicates, stock_df,
                   out_index, out_groups, out_stats, out_top, out_bottom, klineVars>>

\* lines 241-244: a marker row whose label is empty or a footer annotation
GroupNoise ==
    /\ pc = "loop"
    /\ idx <= Len(df)
    /\ IsMarkerRow(Strip(df[idx].code))
    /\ ~AcceptLabel(GroupName(Strip(df[idx].code), Strip(df[idx].name)))
    /\ idx' = idx + 1
    /\ UNCHANGED <<pc, runVars, exc, df, current_group, groups, all_stocks, index_df,
                   duplicates, stock_df, out_index, out_groups, out_stats, out_top,
                   out_bottom, klineVars>>

\* lines 248-252: a data row
GroupData ==
    /\ pc = "loop"
    /\ idx <= Len(df)
    /\ ~IsMarkerRow(Strip(df[idx].code))
    /\ groups' = AppendRow(EnsureGroup(groups, current_group), current_group, idx)
    /\ idx' = idx + 1
    /\ UNCHANGED <<pc, runVars, exc, df, current_group, all_stocks, index_df, duplicates,
                   stock_df, out_index, out_groups, out_stats, out_top, out_bottom, klineVars>>

\* lines 254-262: the loop is over; group frames, all_stocks and index_df
BuildFrames ==
    /\ pc = "loop"
    /\ idx > Len(df)
    /\ all_stocks' = AllStocks(df, groups)
    /\ index_df' = IndexRows(df, all_stocks')
    /\ pc' = "dups"
    /\ UNCHANGED <<runVars, exc, df, idx, current_group, groups, duplicates, stock_df,
                   out_index, out_groups, out_stats, out_top, out_bottom, klineVars>>

\* lines 264-275
CountDuplicates ==
    /\ pc = "dups"
    /\ duplicates' = Duplicates(df, groups)
    /\ pc' = "merge"
    /\ UNCHANGED <<runVars, exc, df, idx, current_group, groups, all_stocks, index_df,
                   stock_df, out_index, out_groups, out_stats, out_top, out_bottom, klineVars>>

\* lines 277-279
MergeDedup ==
    /\ pc = "merge"
    /\ stock_df' = StockDf(df, all_stocks)
    /\ pc' = "p_index"
    /\ UNCHANGED <<runVars, exc, df, idx, current_group, groups, all_stocks, index_df,
                   duplicates, out_index, out_groups, out_stats, out_top, out_bottom, klineVars>>

\* lines 285-309: the index listing (the listing of duplicates prints the dict as it is)
PrintIndex ==
    /\ pc = "p_index"
    /\ out_index' = [m \in 1..Len(index_df) |-> Entry(index_df[m], FloatOrOmit(df[index_df[m]].chg))]
    /\ pc' = "p_groups"
    /\ UNCHANGED <<runVars, exc, df, idx, current_group, groups, all_stocks, index_df,
                   duplicates, stock_df, out_groups, out_stats, out_top, out_bottom, klineVars>>

\* lines 311-338
PrintGroups ==
    /\ pc = "p_groups"
    /\ out_groups' = GroupListings(df, groups)
    /\ pc' = "p_stats"
    /\ UNCHANGED <<runVars, exc, df, idx, current_group, groups, all_stocks, index_df,
                   duplicates, stock_df, out_index, out_stats, out_top, out_bottom, klineVars>>

\* lines 340-357
PrintStats ==
    /\ pc = "p_stats"
    /\ out_stats' = Stats(df, stock_df)
    /\ pc' = "p_top"
    /\ UNCHANGED <<runVars, exc, df, idx, current_group, groups, all_stocks, index_df,
                   duplicates, stock_df, out_index, out_groups, out_top, out_bottom, klineVars>>

\* lines 359-362: the ValueError of the format leaves analyze_stock_list and the program
PrintTop ==
    /\ pc = "p_top"
    /\ out_top' = Printed(df, HeadRows(stock_df))
    /\ IF AnyRaises(df, HeadRows(stock_df))
       THEN pc' = "aborted" /\ exc' = "ValueError"
       ELSE pc' = "p_bottom" /\ exc' = exc
    /\ UNCHANGED <<runVars, df, idx, current_group, groups, all_stocks, index_df,
                   duplicates, stock_df, out_index, out_groups, out_stats, out_bottom, klineVars>>

\* lines 364-366
PrintBottom ==
    /\ pc = "p_bottom"
    /\ out_bottom' = Printed(df, TailRowsReversed(stock_df))
    /\ IF AnyRaises(df, TailRowsReversed(stock_df))
       THEN pc' = "aborted" /\ exc' = "ValueError"
       ELSE pc' = "list_done" /\ exc' = exc
    /\ UNCHANGED <<runVars, df, idx, current_group, groups, all_stocks, index_df,
                   duplicates, stock_df, out_index, out_groups, out_stats, out_top, klineVars>>

\* line 368 and lines 412-413: the caller drops the result; the locals are gone
ListReturn ==
    /\ pc = "list_done"
    /\ pc' = "main"
    /\ df' = NoFrame
    /\ ListLocalsReset
    /\ UNCHANGED <<runVars, exc, klineVars>>

ListStep ==
    \/ ListEmpty \/ ListBegin
    \/ GroupMarker \/ GroupNoise \/ GroupData
    \/ BuildFrames \/ CountDuplicates \/ MergeDedup
    \/ PrintIndex \/ PrintGroups \/ PrintStats \/ PrintTop \/ PrintBottom
    \/ ListReturn


(***************************************************************************)
(* Price-series frames.  A frame has the columns in cols; a row records    *)
(* whether its date cell has a value, its close cell, and whether any      *)
(* other column has a value.                                               *)
(***************************************************************************)
KRow(date, close, rest) == [date |-> date, close |-> close, rest |-> rest]

KRowSet == {KRow(d, c, FALSE) : d \in BOOLEAN, c \in {NaN, Num(0), Num(1), Num(2), Text}}

PriceFrames == {[cols |-> {"date", "close"}, rows |-> r] :
                   r \in UNION {[1..m -> KRowSet] : m \in 0..MaxKRows}}

\* a watchlist table that went through read_tdx_export: no date and no close column
OtherFrames == {[cols |-> {}, rows |-> [i \in 1..m |-> KRow(FALSE, NaN, TRUE)]] : m \in 0..MaxRunRows}

NoKFrame == [cols |-> {}, rows |-> <<>>]

IsBlankRow(r) == ~r.date /\ r.close.k = "nan" /\ ~r.rest

\* line 130: df.dropna(how='all')
DropNa(rows) == SelectSeq(rows, LAMBDA r : ~IsBlankRow(r))

\* line 147: pd.to_numeric(df['close'], errors='coerce')
Closes(rows) == [i \in 1..Len(rows) |-> ToNumeric(rows[i].close)]

\* line 156: (last - first) / first * 100 on floats: a zero divisor gives inf or nan
TotalChange(first, last) ==
    IF first.k = "nan" \/ last.k = "nan" THEN NaN
    ELSE IF first.v = 0
         THEN IF last.v > 0 THEN PosInf ELSE IF last.v < 0 THEN NegInf ELSE NaN
         ELSE Num(((last.v - first.v) * 100) \div first.v)

\* lines 146-157: the price statistics
PriceStats(rows) ==
    LET close == Closes(rows)
        nums  == SelectSeq(close, LAMBDA c : c.k = "num")
        vals  == {nums[m].v : m \in 1..Len(nums)}
    IN  [count  |-> Len(rows),
         last   |-> close[Len(close)],
         max    |-> IF nums = <<>> THEN NaN ELSE Num(CHOOSE x \in vals : \A y \in vals : y <= x),
         min    |-> IF nums = <<>> THEN NaN ELSE Num(CHOOSE x \in vals : \A y \in vals : y >= x),
         change |-> IF Len(close) > 1 THEN TotalChange(close[1], close[Len(close)]) ELSE Omitted]

NoPriceStats == [count |-> 0, last |-> NaN, max |-> NaN, min |-> NaN, change |-> Omitted]

(***************************************************************************)
(* analyze_kline                                                           *)
(***************************************************************************)
\* lines 122-124: df.empty
KlineEmpty ==
    /\ pc = "kline"
    /\ kdf.rows = <<>>
    /\ pc' = "main"
    /\ kdf' = NoKFrame
    /\ UNCHANGED <<runVars, exc, df, listVars, out_kline>>

\* lines 126-149: no row is left after dropna; iloc[0] / iloc[-1] raise IndexError,
\* which leaves analyze_kline and the program
KlineRaises ==
    /\ pc = "kline"
    /\ kdf.rows # <<>>
    /\ DropNa(kdf.rows) = <<>>
    /\ kdf.cols # {}
    /\ pc' = "aborted"
    /\ exc' = "IndexError"
    /\ UNCHANGED <<runVars, df, listVars, klineVars>>

\* lines 126-177
KlineReport ==
    /\ pc = "kline"
    /\ kdf.rows # <<>>
    /\ DropNa(kdf.rows) # <<>> \/ kdf.cols = {}
    /\ out_kline' = IF "close" \in kdf.cols
                    THEN PriceStats(DropNa(kdf.rows))
                    ELSE [NoPriceStats EXCEPT !.count = Len(DropNa(kdf.rows))]
    /\ pc' = "kline_done"
    /\ UNCHANGED <<runVars, exc, df, listVars, kdf>>

\* line 177 and lines 417-418: the caller drops the result
KlineReturn ==
    /\ pc = "kline_done"
    /\ pc' = "main"
    /\ kdf' = NoKFrame
    /\ out_kline' = NoPriceStats
    /\ UNCHANGED <<runVars, exc, df, listVars>>

KlineStep == KlineEmpty \/ KlineRaises \/ KlineReport \/ KlineReturn

NoDoc == [ext |-> "none", decodes |-> {}, header |-> "none", excel |-> FALSE]

(***************************************************************************)
(* Files and readers                                                       *)
(***************************************************************************)
\* the sets of candidate encodings a file can decode under (gb2312 text is gbk text)
DecodeSets == {{}, {"utf-8"}, {"gbk"}, {"gbk", "utf-8"}, {"gbk", "gb2312"},
               {"gbk", "gb2312", "utf-8"}}

\* lines 391-392: the files of *.csv and *.xls*; header tells whether the first line
\* names the code and name columns; excel is a spreadsheet binary, which is no text
Docs == {d \in [ext : {"csv", "xls", "xlsx"}, decodes : DecodeSets,
                header : {"list", "kline"}, excel : BOOLEAN] :
            d.excel => (d.ext # "csv" /\ d.decodes = {} /\ d.header = "kline")}

\* lines 29-35, 38-44: the first encoding of the list that decodes, "none" if none does
RECURSIVE FirstEncoding(_, _)
FirstEncoding(candidates, decodes) ==
    IF candidates = <<>> THEN "none"
    ELSE IF Head(candidates) \in decodes THEN Head(candidates)
    ELSE FirstEncoding(Tail(candidates), decodes)

\* lines 371-378: the first line is read as gbk; any failure is False
IsStockList(d) == "gbk" \in d.decodes /\ d.header = "list"

\* lines 194-221: read as gbk; any failure is None
ReadStockList(d) == IF "gbk" \in d.decodes THEN "gbk" ELSE "none"

\* lines 13-91: the encoding read_tdx_export reads the file with ("excel": read_excel),
\* "none" when it returns None
ReadTdxExport(d) ==
    IF d.ext \in {"csv", "txt"} THEN FirstEncoding(Encodings, d.decodes)
    ELSE IF d.ext \in {"xls", "xlsx"}
         THEN IF "gbk" \in d.decodes THEN "gbk"
              ELSE IF d.excel THEN "excel" ELSE "none"
         ELSE "none"

(***************************************************************************)
(* __main__                                                                *)
(***************************************************************************)
\* lines 394-396
MainNoFiles ==
    /\ pc = "start"
    /\ remaining = 0
    /\ pc' = "finished"
    /\ UNCHANGED <<runVars, exc, df, listVars, klineVars>>

\* lines 397-400
MainBegin ==
    /\ pc = "start"
    /\ remaining > 0
    /\ pc' = "main"
    /\ UNCHANGED <<runVars, exc, df, listVars, klineVars>>

\* lines 403-406: the for loop takes the next file
NextFile ==
    /\ pc = "main"
    /\ remaining > 0
    /\ \E d \in Docs : doc' = d
    /\ remaining' = remaining - 1
    /\ encoding' = "none"
    /\ pc' = "detect"
    /\ UNCHANGED <<exc, df, listVars, klineVars>>

\* line 403: the for loop is exhausted
MainFinish ==
    /\ pc = "main"
    /\ remaining = 0
    /\ pc' = "finished"
    /\ UNCHANGED <<runVars, exc, df, listVars, klineVars>>

\* lines 409-413: is_stock_list is true; read_stock_list
DetectList ==
    /\ pc = "detect"
    /\ IsStockList(doc)
    /\ encoding' = ReadStockList(doc)
    /\ IF encoding' = "none"
       THEN pc' = "main" /\ df' = NoFrame
       ELSE pc' = "list" /\ df' \in Frames(MaxRunRows)
    /\ UNCHANGED <<remaining, doc, exc, listVars, klineVars>>

\* lines 414-418: is_stock_list is false; read_tdx_export returns a frame
ReadTdxOk ==
    /\ pc = "detect"
    /\ ~IsStockList(doc)
    /\ ReadTdxExport(doc) # "none"
    /\ encoding' = ReadTdxExport(doc)
    /\ kdf' \in IF doc.header = "list" THEN OtherFrames ELSE PriceFrames
    /\ pc' = "kline"
    /\ UNCHANGED <<remaining, doc, exc, df, listVars, out_kline>>

\* lines 414-417: is_stock_list is false; read_tdx_export returns None
ReadTdxFails ==
    /\ pc = "detect"
    /\ ~IsStockList(doc)
    /\ ReadTdxExport(doc) = "none"
    /\ pc' = "main"
    /\ UNCHANGED <<runVars, exc, df, listVars, klineVars>>

MainStep == MainNoFiles \/ MainBegin \/ NextFile \/ MainFinish
            \/ DetectList \/ ReadTdxOk \/ ReadTdxFails

Init ==
    /\ pc = "start"
    /\ remaining \in 0..MaxFiles
    /\ doc = NoDoc
    /\ encoding = "none"
    /\ exc = "none"
    /\ df = NoFrame
    /\ ListLocalsInit
    /\ kdf = NoKFrame
    /\ out_kline = NoPriceStats

Next == MainStep \/ ListStep \/ KlineStep

Spec == Init /\ [][Next]_vars

\* analyze_stock_list called on any frame of at most MaxRows rows
InitList ==
    /\ pc = "list"
    /\ remaining = 0
    /\ doc = NoDoc
    /\ encoding = "none"
    /\ exc = "none"
    /\ df \in Frames(MaxRows)
    /\ ListLocalsInit
    /\ kdf = NoKFrame
    /\ out_kline = NoPriceStats

SpecList == InitList /\ [][ListStep]_vars

(***************************************************************************)
(* Properties of analyze_stock_list                                        *)
(***************************************************************************)
\* the grouping loop has locals
InLoop == pc \in {"loop", "dups", "merge", "p_index", "p_groups", "p_stats", "p_top",
                  "p_bottom", "list_done"}

\* all_stocks and index_df are computed
FramesBuilt == pc \in {"dups", "merge", "p_index", "p_groups", "p_stats", "p_top",
                       "p_bottom", "list_done"}

DuplicatesBuilt == pc \in {"merge", "p_index", "p_groups", "p_stats", "p_top",
                           "p_bottom", "list_done"}

MasterBuilt == pc \in {"p_index", "p_groups", "p_stats", "p_top", "p_bottom", "list_done"}

CodeOf(i) == Strip(df[i].code)

LabelOf(i) == IF CodeOf(i) # <<>> THEN CodeOf(i) ELSE Strip(df[i].name)

IsDataRow(i) == IF CodeOf(i) = <<>> THEN FALSE ELSE CodeOf(i)[1] \in Digits

IsNoiseLabel(g) ==
    \/ \E j \in 1..Len(g) : j < Len(g) /\ g[j] = "chong" /\ g[j + 1] = "fu"
    \/ \E j \in 1..Len(g) : j + 3 <= Len(g) /\ g[j] = "shu" /\ g[j + 1] = "ju"
                            /\ g[j + 2] = "lai" /\ g[j + 3] = "yuan"

IsAcceptedMarker(i) == ~IsDataRow(i) /\ LabelOf(i) # <<>> /\ ~IsNoiseLabel(LabelOf(i))

IsNoiseMarker(i) == ~IsDataRow(i) /\ IsNoiseLabel(LabelOf(i))

\* the label of the last accepted marker row before row i
ExpectedLabel(i) ==
    LET ms == {j \in 1..(i - 1) : IsAcceptedMarker(j)}
    IN  IF ms = {} THEN Unclassified ELSE LabelOf(CHOOSE j \in ms : \A m \in ms : m <= j)

\* the groups that hold row i, and the places of row i in group g
Holders(i) == {g \in 1..Len(groups) : \E m \in 1..Len(groups[g].rows) : groups[g].rows[m] = i}

Places(g, i) == {m \in 1..Len(groups[g].rows) : groups[g].rows[m] = i}

InGroup(i, label) == \E g \in 1..Len(groups) : groups[g].label = label /\ i \in Range(groups[g].rows)

\* C1: while and after the grouping loop runs, every data row it has processed is a
\* member of exactly one group, the one labelled by the last accepted marker row before
\* it (the unclassified group when there is none), and no marker row is a member of a group.
C1_Grouping ==
    InLoop =>
        /\ \A g, h \in 1..Len(groups) : groups[g].label = groups[h].label => g = h
        /\ \A i \in 1..Len(df) :
              IF i < idx /\ IsDataRow(i)
              THEN /\ Cardinality(Holders(i)) = 1
                   /\ \A g \in Holders(i) : groups[g].label = ExpectedLabel(i) /\ Cardinality(Places(g, i)) = 1
              ELSE Holders(i) = {}

\* a data row before any marker, a marker, and a data row after it, all processed
C1_Witness ==
    /\ pc = "loop"
    /\ idx > Len(df)
    /\ \E i, j, k \in 1..Len(df) :
          /\ i < j /\ j < k
          /\ IsDataRow(i) /\ IsAcceptedMarker(j) /\ IsDataRow(k)
          /\ InGroup(i, Unclassified)
          /\ InGroup(k, LabelOf(j))

GroupsOfCodeSet(c) == {groups[g].label : g \in {h \in 1..Len(groups) :
                          \E m \in 1..Len(groups[h].rows) : df[groups[h].rows[m]].code = c}}

GroupedCodes == {df[groups[g].rows[m]].code : <<g, m>> \in
                    {<<h, n>> \in (1..Len(groups)) \X (1..Len(df)) : n <= Len(groups[h].rows)}}

DuplicateKeys == {duplicates[m].code : m \in 1..Len(duplicates)}

\* the labels of the groups that hold code c, in the order the groups were created
GroupSeqOfCode(c) ==
    LET hs == SelectSeq([g \in 1..Len(groups) |-> g],
                        LAMBDA h : \E m \in 1..Len(groups[h].rows) : df[groups[h].rows[m]].code = c)
    IN  [m \in 1..Len(hs) |-> groups[hs[m]].label]

\* C2: a non-index code is a key of duplicates iff it appears in more than one distinct
\* group, and its value lists those groups in the order the groups were created.
C2_DuplicatesAcrossGroups ==
    DuplicatesBuilt =>
        /\ \A c \in GroupedCodes :
              ~StartsWith(c, <<"9", "9">>) =>
                  (c \in DuplicateKeys <=> Cardinality(GroupsOfCodeSet(c)) > 1)
        /\ \A m \in 1..Len(duplicates) : duplicates[m].groups = GroupSeqOfCode(duplicates[m].code)

AllNumeric(rows) == \A m \in 1..Len(rows) : df[rows[m]].chg.k = "num"

ListedRows(listing) == [m \in 1..Len(listing) |-> listing[m].row]

\* C3: the top listing is the five master-set records of highest change percent, in
\* descending order, ties in master-set order; the bottom listing is the five lowest.
C3_Ranking ==
    (pc = "list_done" /\ AllNumeric(stock_df)) =>
        /\ ListedRows(out_top) = Take(SortDesc(df, stock_df), TopN)
        /\ Range(ListedRows(out_bottom)) = Range(Take(Reverse(SortDesc(df, stock_df)), TopN))

\* a data row of the master set whose change percent is missing or not a number
HasBadRate == \E m \in 1..Len(stock_df) : IsDataRow(stock_df[m]) /\ df[stock_df[m]].chg.k # "num"

GroupEntries == Concat([g \in 1..Len(out_groups) |-> out_groups[g].entries])

\* C4: with a missing or non-numeric change percent in the master set the analysis does
\* not raise, the value is left out of the statistics, and the record is listed with its
\* rate omitted (a printed "nan" is counted as no rate).
C4_NumericCoercion ==
    (MasterBuilt \/ pc = "aborted") /\ HasBadRate =>
        /\ pc # "aborted"
        /\ pc \in {"p_top", "p_bottom", "list_done"} =>
              /\ out_stats.count = Cardinality({m \in 1..Len(stock_df) : df[stock_df[m]].chg.k = "num"})
              /\ \A m \in 1..Len(stock_df) :
                    df[stock_df[m]].chg.k # "num" =>
                        \E e \in 1..Len(GroupEntries) :
                            /\ GroupEntries[e].row = stock_df[m]
                            /\ GroupEntries[e].rate.k \in {"omitted", "nan"}

GroupedRows == Concat([g \in 1..Len(groups) |-> groups[g].rows])

\* C5: the master set has at most one record per code, the first occurrence of the code
\* when the groups are scanned in creation order and their members in insertion order.
C5_MasterSet ==
    MasterBuilt =>
        /\ \A m, n \in 1..Len(stock_df) : df[stock_df[m]].code = df[stock_df[n]].code => m = n
        /\ \A m \in 1..Len(stock_df) :
              \E n \in 1..Len(GroupedRows) :
                  /\ GroupedRows[n] = stock_df[m]
                  /\ \A o \in 1..(n - 1) : df[GroupedRows[o]].code # df[stock_df[m]].code
        /\ \A n \in 1..Len(GroupedRows) :
              ~StartsWith(df[GroupedRows[n]].code, <<"9", "9">>) =>
                  \E m \in 1..Len(stock_df) : df[stock_df[m]].code = df[GroupedRows[n]].code

IsIndexRecord(i) == Len(df[i].code) >= 2 /\ df[i].code[1] = "9" /\ df[i].code[2] = "9"

\* C6: a record whose code starts with "99" is never in the master set, never a key of
\* duplicates, never in a per-group or top/bottom listing; it is in the index set.
C6_IndexExclusion ==
    \A i \in 1..Len(df) :
        IsIndexRecord(i) =>
            /\ i \notin Range(stock_df)
            /\ df[i].code \notin DuplicateKeys
            /\ i \notin Range(ListedRows(GroupEntries))
            /\ i \notin Range(ListedRows(out_top))
            /\ i \notin Range(ListedRows(out_bottom))
            /\ FramesBuilt => i \in Range(index_df)

\* an index record and other records went through the whole analysis
C6_Witness ==
    /\ pc = "list_done"
    /\ index_df # <<>>
    /\ stock_df # <<>>
    /\ out_top # <<>>
    /\ out_groups # <<>>
    /\ \E i \in 1..Len(df) : IsIndexRecord(i) /\ i \in Range(index_df)

\* C7: a marker row whose label contains "chong fu" or "shu ju lai yuan" changes neither
\* current_group nor groups, so the data rows after it go to the group current before it.
C7_NoiseRejection ==
    [][(pc = "loop" /\ idx <= Len(df) /\ IsNoiseMarker(idx)) =>
          (current_group' = current_group /\ groups' = groups /\ pc' = "loop")]_vars

\* a marker, a footer annotation, then a data row that joined the marker's group
C7_Witness ==
    /\ pc = "loop"
    /\ \E i \in 2..(Len(df) - 1) :
          /\ i + 1 < idx
          /\ IsAcceptedMarker(i - 1)
          /\ IsNoiseMarker(i)
          /\ IsDataRow(i + 1)
          /\ InGroup(i + 1, LabelOf(i - 1))
          /\ Len(groups) = 1

(***************************************************************************)
(* Properties of the readers, of __main__ and of analyze_kline             *)
(***************************************************************************)
\* the file the loop is at has been read, or the read has failed
ReadOver == pc \in {"list", "kline"} \/ (pc = "main" /\ doc.ext # "none")

PreferredEncoding(decodes) ==
    IF "gbk" \in decodes THEN "gbk"
    ELSE IF "utf-8" \in decodes THEN "utf-8"
    ELSE IF "gb2312" \in decodes THEN "gb2312"
    ELSE "none"

\* C8: whatever the extension and the kind of the document, it is read with the first of
\* gbk, utf-8, gb2312 that decodes it, and a watchlist stays a watchlist; the read fails
\* only when none of the three decodes it.
C8_EncodingResolution ==
    (ReadOver /\ doc.decodes # {}) =>
        /\ encoding = PreferredEncoding(doc.decodes)
        /\ doc.header = "list" => pc # "kline"

\* the document the loop is at cannot be decoded, or has rows that are all blank
DocumentFails == doc.ext # "none" /\ (doc.decodes = {} \/ (kdf.rows # <<>> /\ \A i \in 1..Len(kdf.rows) : IsBlankRow(kdf.rows[i])))

\* C9: a document whose detection or parsing fails does not abort the run while later
\* documents wait to be read.
C9_FailureIsolation == (DocumentFails /\ remaining > 0) => pc # "aborted"

FirstClose == DropNa(kdf.rows)[1].close

LastClose == DropNa(kdf.rows)[Len(DropNa(kdf.rows))].close

\* C10: the percent change of the close is reported exactly when the series has at least
\* two records and a first close other than zero, and then it is (last - first) / first * 100.
C10_PercentChange ==
    (pc = "kline_done" /\ "close" \in kdf.cols /\ FirstClose.k = "num" /\ LastClose.k = "num") =>
        IF Len(DropNa(kdf.rows)) >= 2 /\ FirstClose.v # 0
        THEN out_kline.change = Num(((LastClose.v - FirstClose.v) * 100) \div FirstClose.v)
        ELSE out_kline.change.k = "omitted"

====
